---- MODULE Spec2Model ----
(***************************************************************************)
(* Model of the feedback application: the repository (src/src/db.rs) over  *)
(* the two SQLite tables `prompts` and `feedback`, and the axum request    *)
(* handlers (src/src/main.rs) that run on top of it.  Every SQL statement  *)
(* is one atomic step; a handler or repository function that awaits two    *)
(* statements is two steps, so that concurrent requests interleave between *)
(* them.  Text values that the code formats, compares or searches          *)
(* (identifiers, timestamps, hosts, URLs) are sequences of one-character   *)
(* strings.                                                                *)
(***************************************************************************)
EXTENDS Integers, Sequences, FiniteSets, TLC

(* ------------------------------ bounds --------------------------------- *)

\* Number of rows that are inserted in one behaviour.
MaxUuid == 3

(* ------------------------------- text ---------------------------------- *)

DigitChars == <<"0", "1", "2", "3", "4", "5", "6", "7", "8", "9">>

\* Byte values of the characters that occur in timestamps (SQLite compares
\* TEXT with the BINARY collation, i.e. byte by byte).
CharCode(c) ==
    CASE c = "+" -> 43
      [] c = "-" -> 45
      [] c = "." -> 46
      [] c = "0" -> 48
      [] c = "1" -> 49
      [] c = "2" -> 50
      [] c = "3" -> 51
      [] c = "4" -> 52
      [] c = "5" -> 53
      [] c = "6" -> 54
      [] c = "7" -> 55
      [] c = "8" -> 56
      [] c = "9" -> 57
      [] c = ":" -> 58
      [] c = "T" -> 84

\* n in decimal, zero-padded to w digits (the {:02}, {:03}, {:06}, {:09}
\* fields of the RFC 3339 rendering).
RECURSIVE Pad(_, _)
Pad(n, w) ==
    IF w = 0 THEN <<>> ELSE Pad(n \div 10, w - 1) \o <<DigitChars[(n % 10) + 1]>>

\* a < b in SQLite's BINARY collation: bytewise, a proper prefix sorts first.
RECURSIVE StrLess(_, _)
StrLess(a, b) ==
    IF b = <<>> THEN FALSE
    ELSE IF a = <<>> THEN TRUE
    ELSE IF a[1] = b[1] THEN StrLess(Tail(a), Tail(b))
    ELSE CharCode(a[1]) < CharCode(b[1])

\* str::contains: pat occurs in s as a contiguous substring.
RECURSIVE contains(_, _)
contains(s, pat) ==
    IF Len(s) < Len(pat) THEN FALSE
    ELSE IF SubSeq(s, 1, Len(pat)) = pat THEN TRUE
    ELSE contains(Tail(s), pat)

(* ------------------------------- time ---------------------------------- *)

\* The instants the wall clock shows, one after the other, as seconds and
\* nanoseconds within 2024-01-01T00:00.  The first has no fractional second
\* and the second whole milliseconds, so that the rendering of the earlier
\* instant is the shorter one and the two differ first where one has the
\* offset and the other the fraction.
Instants ==
    <<[sec |-> 9, nanos |-> 0],
      [sec |-> 9, nanos |-> 500000000]>>

DatePrefix ==
    <<"2", "0", "2", "4", "-", "0", "1", "-", "0", "1", "T",
      "0", "0", ":", "0", "0", ":">>

UtcOffset == <<"+", "0", "0", ":", "0", "0">>

\* The fractional seconds of SecondsFormat::AutoSi: none, 3, 6 or 9 digits.
Fraction(nanos) ==
    IF nanos = 0 THEN <<>>
    ELSE IF nanos % 1000000 = 0 THEN <<".">> \o Pad(nanos \div 1000000, 3)
    ELSE IF nanos % 1000 = 0 THEN <<".">> \o Pad(nanos \div 1000, 6)
    ELSE <<".">> \o Pad(nanos, 9)

\* DateTime<Utc>::to_rfc3339.
to_rfc3339(t) == DatePrefix \o Pad(t.sec, 2) \o Fraction(t.nanos) \o UtcOffset

(* ------------------------------ state ---------------------------------- *)

VARIABLES
    prompts,      \* rows of table prompts
    feedback,     \* rows of table feedback
    clock,        \* which of the Instants the wall clock shows
    nextUuid,     \* number of generated identifiers that were stored
    pending,      \* per two-statement function: the call suspended between
                  \* its statements, if any
    last,         \* the statement that just ran: function, arguments, outcome
    promptLog,    \* the Prompts create_prompt has returned, in order
    feedbackLog   \* the Feedback create_feedback has returned, in order

vars ==
    <<prompts, feedback, clock, nextUuid, pending, last, promptLog,
      feedbackLog>>

(* ----------------------------- results --------------------------------- *)

\* Result<T, sqlx::Error>; err is "io" for a storage fault and "constraint"
\* for a statement the schema rejects.
Ok(v) == [ok |-> TRUE, val |-> v, err |-> ""]
Err(e) == [ok |-> FALSE, val |-> <<>>, err |-> e]

\* Option<T>.
Some(x) == <<x>>
None == <<>>

(* ---------------------------- repository ------------------------------- *)

\* uuid::Uuid::new_v4().to_string(): an identifier that no row has had.  (An
\* identifier whose INSERT failed is dropped with the error and seen by no
\* one, so only the stored ones are counted.)
\* Variant: an id generator that repeats itself.
new_v4_fixed == <<"u", "0", "1">>

\* uuid::Uuid::new_v4().to_string(): an id that no earlier call returned.
new_v4 == <<"u">> \o Pad(nextUuid + 1, 2)

\* Utc::now(): the wall clock's current reading.
Utc_now == Instants[clock]

\* id TEXT PRIMARY KEY: no second row with the same id.
PrimaryKeyFree(table, id) == \A r \in table : r.id # id

\* Variant: the schema without the FOREIGN KEY clause, for INSERT.
ForeignKeyParentUnchecked(prompt_id) == TRUE

\* FOREIGN KEY (prompt_id) REFERENCES prompts(id), as seen by an INSERT INTO
\* feedback: the parent row must exist.
ForeignKeyParentExists(prompt_id) == \E r \in prompts : r.id = prompt_id

\* Variant: the schema without the FOREIGN KEY clause, for DELETE.
ForeignKeyChildUnchecked(id) == TRUE

\* The same constraint as seen by a DELETE FROM prompts: no feedback row may
\* still reference a row that is removed.
ForeignKeyNoChild(id) ==
    (\E r \in prompts : r.id = id) => \A f \in feedback : f.prompt_id # id

\* All orders in which ORDER BY created_at DESC may return rows: every row
\* once, created_at never increasing; rows with equal created_at in any order.
OrderByCreatedAtDesc(rows) ==
    {s \in [1..Cardinality(rows) -> rows] :
        /\ \A i, j \in 1..Cardinality(rows) : i # j => s[i] # s[j]
        /\ \A i, j \in 1..Cardinality(rows) :
              i < j => ~StrLess(s[i].created_at, s[j].created_at)}

\* Variant: create_prompt with its bind calls in the wrong order.
create_prompt_swapped(title, description, fault) ==
    LET id == new_v4
        created_at == to_rfc3339(Utc_now)
        row == [id |-> id, title |-> description, description |-> title,
                created_at |-> created_at]
    IN  IF fault THEN [res |-> Err("io"), prompts |-> prompts]
        ELSE IF ~PrimaryKeyFree(prompts, id)
        THEN [res |-> Err("constraint"), prompts |-> prompts]
        ELSE [res |-> Ok([id |-> id, title |-> title,
                          description |-> description,
                          created_at |-> created_at]),
              prompts |-> prompts \cup {row}]

\* db::create_prompt: the result and the table after it.
create_prompt(title, description, fault) ==
    LET id == new_v4
        created_at == to_rfc3339(Utc_now)
        row == [id |-> id, title |-> title, description |-> description,
                created_at |-> created_at]
    IN  IF fault THEN [res |-> Err("io"), prompts |-> prompts]
        ELSE IF ~PrimaryKeyFree(prompts, id)
        THEN [res |-> Err("constraint"), prompts |-> prompts]
        ELSE [res |-> Ok([id |-> id, title |-> title,
                          description |-> description,
                          created_at |-> created_at]),
              prompts |-> prompts \cup {row}]

\* db::get_all_prompts: the results it may return.
get_all_prompts(fault) ==
    IF fault THEN {Err("io")}
    ELSE {Ok(s) : s \in OrderByCreatedAtDesc(prompts)}

\* Variant: the query without its WHERE clause.
get_prompt_by_id_any(id, fault) ==
    IF fault THEN Err("io")
    ELSE IF prompts # {}
    THEN Ok(Some(CHOOSE r \in prompts : TRUE))
    ELSE Ok(None)

\* db::get_prompt_by_id.
get_prompt_by_id(id, fault) ==
    IF fault THEN Err("io")
    ELSE IF \E r \in prompts : r.id = id
    THEN Ok(Some(CHOOSE r \in prompts : r.id = id))
    ELSE Ok(None)

\* db::create_feedback: the result and the table after it.
create_feedback(prompt_id, content, fault) ==
    LET id == new_v4
        created_at == to_rfc3339(Utc_now)
        row == [id |-> id, prompt_id |-> prompt_id, content |-> content,
                created_at |-> created_at]
    IN  IF fault THEN [res |-> Err("io"), feedback |-> feedback]
        ELSE IF ~PrimaryKeyFree(feedback, id) \/ ~ForeignKeyParentExists(prompt_id)
        THEN [res |-> Err("constraint"), feedback |-> feedback]
        ELSE [res |-> Ok([id |-> id, prompt_id |-> prompt_id,
                          content |-> content, created_at |-> created_at]),
              feedback |-> feedback \cup {row}]

\* Variant: get_feedback_for_prompt without its WHERE clause.
get_feedback_for_any_prompt(prompt_id, fault) ==
    IF fault THEN {Err("io")}
    ELSE {Ok(s) : s \in OrderByCreatedAtDesc(feedback)}

\* db::get_feedback_for_prompt: the results it may return.
get_feedback_for_prompt(prompt_id, fault) ==
    IF fault THEN {Err("io")}
    ELSE {Ok(s) : s \in OrderByCreatedAtDesc(
                            {f \in feedback : f.prompt_id = prompt_id})}

\* Variant: the cascade without its WHERE clause.
delete_prompt_feedback_all(id, fault) ==
    IF fault THEN [res |-> Err("io"), feedback |-> feedback]
    ELSE [res |-> Ok(<<>>), feedback |-> {}]

\* Variant: delete_prompt without the cascade.
delete_prompt_feedback_kept(id, fault) ==
    IF fault THEN [res |-> Err("io"), feedback |-> feedback]
    ELSE [res |-> Ok(<<>>), feedback |-> feedback]

\* db::delete_prompt, first statement: DELETE FROM feedback WHERE prompt_id = ?
delete_prompt_feedback(id, fault) ==
    IF fault THEN [res |-> Err("io"), feedback |-> feedback]
    ELSE [res |-> Ok(<<>>),
          feedback |-> {f \in feedback : f.prompt_id # id}]

\* db::delete_prompt, second statement: DELETE FROM prompts WHERE id = ?
delete_prompt_row(id, fault) ==
    IF fault THEN [res |-> Err("io"), prompts |-> prompts]
    ELSE IF ~ForeignKeyNoChild(id)
    THEN [res |-> Err("constraint"), prompts |-> prompts]
    ELSE [res |-> Ok(<<>>), prompts |-> {r \in prompts : r.id # id}]

(* ------------------------------ inputs --------------------------------- *)

\* The forms POSTed to /admin/new.
PromptForms ==
    {[title |-> "First", description |-> "First desc"],
     [title |-> "Second", description |-> ""]}

\* One prompt form and one feedback content, for the specifications that
\* are about the interleaving of requests and not about their contents.
OnePromptForm == {[title |-> "First", description |-> "First desc"]}
OneContent == {"Great feedback!"}

\* A path id that was never generated (the tests' "nonexistent-id").
NonexistentId ==
    <<"n", "o", "n", "e", "x", "i", "s", "t", "e", "n", "t", "-", "i", "d">>

\* The ids callers pass: every prompt id handed out so far, and one that is not.
RequestIds == {promptLog[i].id : i \in 1..Len(promptLog)} \cup {NonexistentId}

Localhost == <<"l", "o", "c", "a", "l", "h", "o", "s", "t">>
Loopback == <<"1", "2", "7", ".", "0", ".", "0", ".", "1">>
ExampleCom == <<"e", "x", "a", "m", "p", "l", "e", ".", "c", "o", "m">>
Port3000 == <<":", "3", "0", "0", "0">>

\* The Host headers of the requests that run beside the others.
RequestHosts == {Localhost \o Port3000, ExampleCom}

\* Host values around the two needles: each core alone, behind a prefix,
\* before a suffix, and both; the cores are the needles, each needle short
\* of its last character, the needle in capitals and in other punctuation,
\* and a host without any of it.
HostPrefixes == {<<>>, <<"m", "y">>, <<"a", ".">>}

HostCores ==
    {Localhost, Loopback, ExampleCom,
      <<"l", "o", "c", "a", "l", "h", "o", "s">>,
      <<"1", "2", "7", ".", "0", ".", "0", ".">>,
      <<"L", "O", "C", "A", "L", "H", "O", "S", "T">>,
      <<"1", "2", "7", "-", "0", "-", "0", "-", "1">>}

HostSuffixes == {<<>>, Port3000, <<".", "i", "o">>, <<"1">>, <<"t">>}

AllHosts ==
    {p \o c \o x : p \in HostPrefixes, c \in HostCores, x \in HostSuffixes}

(* ----------------------------- responses ------------------------------- *)

NoResponse == <<>>

\* Html(body) with status 200 OK: a rendered template with its fields, or a
\* literal text.
Html(view, data) ==
    [status |-> 200, view |-> view, data |-> data, location |-> <<>>]

\* Redirect::to(uri): 303 See Other.
Redirect(uri) ==
    [status |-> 303, view |-> "", data |-> <<>>, location |-> uri]

AdminUri == <<"/", "a", "d", "m", "i", "n">>
AdminPromptUri ==
    <<"/", "a", "d", "m", "i", "n", "/", "p", "r", "o", "m", "p", "t", "/">>
FeedbackPath == <<"/", "f", "e", "e", "d", "b", "a", "c", "k", "/">>
Http == <<"h", "t", "t", "p">>
Https == <<"h", "t", "t", "p", "s">>
SchemeSep == <<":", "/", "/">>

\* Variant: the protocol chosen by comparing the whole host.
protocol_exact(host) ==
    IF host = Localhost \/ host = Loopback THEN Http ELSE Https

\* admin_detail: the protocol chosen from the Host header.
protocol(host) ==
    IF contains(host, Localhost) \/ contains(host, Loopback) THEN Http ELSE Https

\* admin_detail: format!("{}://{}/feedback/{}", protocol, host, id).
feedback_url(host, id) ==
    protocol(host) \o SchemeSep \o host \o FeedbackPath \o id

\* index.
index_response == Redirect(AdminUri)

\* Variant: admin_list that renders a failed query as an empty listing.
admin_list_response_degraded(r) ==
    Html("admin_list.html", [prompts |-> IF r.ok THEN r.val ELSE <<>>])

\* admin_list: the response for the outcome r of get_all_prompts.
admin_list_response(r) ==
    IF r.ok THEN Html("admin_list.html", [prompts |-> r.val])
    ELSE Html("Error loading prompts", <<>>)

\* admin_new_form.
admin_new_form_response == Html("admin_new.html", <<>>)

\* Variant: admin_new_submit that shows the storage failure.
admin_new_submit_response_surfaced(r) ==
    IF r.ok THEN Redirect(AdminPromptUri \o r.val.id)
    ELSE Html("Error creating prompt", <<>>)

\* admin_new_submit: the response for the outcome r of create_prompt.
admin_new_submit_response(r) ==
    IF r.ok THEN Redirect(AdminPromptUri \o r.val.id) ELSE Redirect(AdminUri)

\* Ok(Some(p)) => p, anything else => the not-found arm.
Found(r) == r.ok /\ r.val # None

NotFoundResponse == Html("Prompt not found", <<>>)

\* Variant: admin_detail that gives up when the feedback query fails.
admin_detail_response_strict(prompt, host, id, r) ==
    IF r.ok
    THEN Html("admin_detail.html",
              [prompt |-> prompt, feedback_list |-> r.val,
               feedback_url |-> feedback_url(host, id)])
    ELSE Html("Error loading feedback", <<>>)

\* admin_detail after both queries: r is the outcome of
\* get_feedback_for_prompt, replaced by the empty list on failure.
admin_detail_response(prompt, host, id, r) ==
    Html("admin_detail.html",
         [prompt |-> prompt,
          feedback_list |-> IF r.ok THEN r.val ELSE <<>>,
          feedback_url |-> feedback_url(host, id)])

\* feedback_form: the response for the outcome r of get_prompt_by_id.
feedback_form_response(r) ==
    IF Found(r) THEN Html("feedback_form.html", [prompt |-> r.val[1]])
    ELSE NotFoundResponse

\* feedback_submit: the response for the outcome r of create_feedback.
feedback_submit_response(r) ==
    IF r.ok THEN Html("feedback_success.html", <<>>)
    ELSE Html("Error submitting feedback", <<>>)

(* ------------------------------ steps ---------------------------------- *)

\* The label of a statement that ran: the function, which of its statements,
\* the arguments, the statement's outcome and, when a handler answered, its
\* response.
Step(op, stmt, args, res, resp) ==
    [op |-> op, stmt |-> stmt, args |-> args, res |-> res, resp |-> resp]

NoStep == Step("none", 0, <<>>, Ok(<<>>), NoResponse)

\* The functions that await two statements.  One call of each can be
\* suspended between its statements while the others run.
TwoStatementFns == {"delete_prompt", "feedback_submit", "admin_detail"}

NoCall == <<>>

\* The locals of a call suspended after its first statement.
Suspended(id, content, host, prompt) ==
    [id |-> id, content |-> content, host |-> host, prompt |-> prompt]

\* No outcome is waiting for its caller.  No action reads `last`; holding the
\* other tasks back until the caller has taken it removes no interleaving of
\* the statements.
Ready == last = NoStep

Init ==
    /\ prompts = {}
    /\ feedback = {}
    /\ clock = 1
    /\ nextUuid = 0
    /\ pending = [fn \in TwoStatementFns |-> NoCall]
    /\ last = NoStep
    /\ promptLog = <<>>
    /\ feedbackLog = <<>>

\* The caller takes the outcome of the statement that just ran.
Return ==
    /\ ~Ready
    /\ last' = NoStep
    /\ UNCHANGED <<prompts, feedback, clock, nextUuid, pending, promptLog,
                   feedbackLog>>

\* The wall clock moves on.
Tick ==
    /\ Ready
    /\ clock < Len(Instants)
    /\ clock' = clock + 1
    /\ UNCHANGED <<prompts, feedback, nextUuid, pending, last, promptLog,
                   feedbackLog>>

(* ---- repository functions called directly (as the tests call them) ---- *)

CreatePrompt(form, fault) ==
    /\ Ready
    /\ nextUuid < MaxUuid
    /\ LET r == create_prompt(form.title, form.description, fault) IN
        /\ prompts' = r.prompts
        /\ nextUuid' = IF r.res.ok THEN nextUuid + 1 ELSE nextUuid
        /\ promptLog' = IF r.res.ok THEN Append(promptLog, r.res.val)
                        ELSE promptLog
        /\ last' = Step("create_prompt", 1, form, r.res, NoResponse)
    /\ UNCHANGED <<feedback, clock, pending, feedbackLog>>

GetAllPrompts(fault) ==
    /\ Ready
    /\ \E r \in get_all_prompts(fault) :
        last' = Step("get_all_prompts", 1, <<>>, r, NoResponse)
    /\ UNCHANGED <<prompts, feedback, clock, nextUuid, pending, promptLog,
                   feedbackLog>>

GetPromptById(id, fault) ==
    /\ Ready
    /\ last' = Step("get_prompt_by_id", 1, [id |-> id],
                    get_prompt_by_id(id, fault), NoResponse)
    /\ UNCHANGED <<prompts, feedback, clock, nextUuid, pending, promptLog,
                   feedbackLog>>

CreateFeedback(prompt_id, content, fault) ==
    /\ Ready
    /\ nextUuid < MaxUuid
    /\ LET r == create_feedback(prompt_id, content, fault) IN
        /\ feedback' = r.feedback
        /\ nextUuid' = IF r.res.ok THEN nextUuid + 1 ELSE nextUuid
        /\ feedbackLog' = IF r.res.ok THEN Append(feedbackLog, r.res.val)
                          ELSE feedbackLog
        /\ last' = Step("create_feedback", 1,
                        [id |-> prompt_id, content |-> content],
                        r.res, NoResponse)
    /\ UNCHANGED <<prompts, clock, pending, promptLog>>

GetFeedbackForPrompt(prompt_id, fault) ==
    /\ Ready
    /\ \E r \in get_feedback_for_prompt(prompt_id, fault) :
        last' = Step("get_feedback_for_prompt", 1, [id |-> prompt_id], r,
                     NoResponse)
    /\ UNCHANGED <<prompts, feedback, clock, nextUuid, pending, promptLog,
                   feedbackLog>>

\* delete_prompt up to its first await: the feedback rows go; on an error
\* the `?` returns it.
DeletePromptFeedback(id, fault) ==
    /\ Ready
    /\ pending["delete_prompt"] = NoCall
    /\ LET r == delete_prompt_feedback(id, fault) IN
        /\ feedback' = r.feedback
        /\ pending' = IF r.res.ok
                      THEN [pending EXCEPT !["delete_prompt"] =
                                Suspended(id, "", <<>>, <<>>)]
                      ELSE pending
        /\ last' = Step("delete_prompt", 1, [id |-> id], r.res, NoResponse)
    /\ UNCHANGED <<prompts, clock, nextUuid, promptLog, feedbackLog>>

\* delete_prompt from its first await to its return: the prompt row goes.
DeletePromptRow(fault) ==
    /\ Ready
    /\ pending["delete_prompt"] # NoCall
    /\ LET c == pending["delete_prompt"]
           r == delete_prompt_row(c.id, fault)
       IN  /\ prompts' = r.prompts
           /\ last' = Step("delete_prompt", 2, [id |-> c.id], r.res,
                           NoResponse)
    /\ pending' = [pending EXCEPT !["delete_prompt"] = NoCall]
    /\ UNCHANGED <<feedback, clock, nextUuid, promptLog, feedbackLog>>

(* --------------------------- request handlers -------------------------- *)

\* GET /
Index ==
    /\ Ready
    /\ last' = Step("index", 1, <<>>, Ok(<<>>), index_response)
    /\ UNCHANGED <<prompts, feedback, clock, nextUuid, pending, promptLog,
                   feedbackLog>>

\* GET /admin
AdminList(fault) ==
    /\ Ready
    /\ \E r \in get_all_prompts(fault) :
        last' = Step("admin_list", 1, <<>>, r, admin_list_response(r))
    /\ UNCHANGED <<prompts, feedback, clock, nextUuid, pending, promptLog,
                   feedbackLog>>

\* GET /admin/new
AdminNewForm ==
    /\ Ready
    /\ last' = Step("admin_new_form", 1, <<>>, Ok(<<>>),
                    admin_new_form_response)
    /\ UNCHANGED <<prompts, feedback, clock, nextUuid, pending, promptLog,
                   feedbackLog>>

\* POST /admin/new
AdminNewSubmit(form, fault) ==
    /\ Ready
    /\ nextUuid < MaxUuid
    /\ LET r == create_prompt(form.title, form.description, fault) IN
        /\ prompts' = r.prompts
        /\ nextUuid' = IF r.res.ok THEN nextUuid + 1 ELSE nextUuid
        /\ promptLog' = IF r.res.ok THEN Append(promptLog, r.res.val)
                        ELSE promptLog
        /\ last' = Step("admin_new_submit", 1, form, r.res,
                        admin_new_submit_response(r.res))
    /\ UNCHANGED <<feedback, clock, pending, feedbackLog>>

\* GET /admin/prompt/:id up to the answer of get_prompt_by_id.
AdminDetailPrompt(id, host, fault) ==
    /\ Ready
    /\ pending["admin_detail"] = NoCall
    /\ LET r == get_prompt_by_id(id, fault) IN
        /\ pending' = IF Found(r)
                      THEN [pending EXCEPT !["admin_detail"] =
                                Suspended(id, "", host, r.val[1])]
                      ELSE pending
        /\ last' = Step("admin_detail", 1, [id |-> id, host |-> host], r,
                        IF Found(r) THEN NoResponse ELSE NotFoundResponse)
    /\ UNCHANGED <<prompts, feedback, clock, nextUuid, promptLog,
                   feedbackLog>>

\* GET /admin/prompt/:id from the answer of get_feedback_for_prompt on.
AdminDetailFeedback(fault) ==
    /\ Ready
    /\ pending["admin_detail"] # NoCall
    /\ LET c == pending["admin_detail"] IN
        \E r \in get_feedback_for_prompt(c.id, fault) :
            last' = Step("admin_detail", 2, [id |-> c.id, host |-> c.host], r,
                         admin_detail_response(c.prompt, c.host, c.id, r))
    /\ pending' = [pending EXCEPT !["admin_detail"] = NoCall]
    /\ UNCHANGED <<prompts, feedback, clock, nextUuid, promptLog,
                   feedbackLog>>

\* GET /feedback/:id
FeedbackForm(id, fault) ==
    /\ Ready
    /\ LET r == get_prompt_by_id(id, fault) IN
        last' = Step("feedback_form", 1, [id |-> id], r,
                     feedback_form_response(r))
    /\ UNCHANGED <<prompts, feedback, clock, nextUuid, pending, promptLog,
                   feedbackLog>>

\* POST /feedback/:id up to the answer of get_prompt_by_id ("Verify prompt
\* exists").
FeedbackSubmitVerify(id, content, fault) ==
    /\ Ready
    /\ pending["feedback_submit"] = NoCall
    /\ LET r == get_prompt_by_id(id, fault) IN
        /\ pending' = IF Found(r)
                      THEN [pending EXCEPT !["feedback_submit"] =
                                Suspended(id, content, <<>>, <<>>)]
                      ELSE pending
        /\ last' = Step("feedback_submit", 1,
                        [id |-> id, content |-> content], r,
                        IF Found(r) THEN NoResponse ELSE NotFoundResponse)
    /\ UNCHANGED <<prompts, feedback, clock, nextUuid, promptLog,
                   feedbackLog>>

\* POST /feedback/:id from the call of create_feedback on.
FeedbackSubmitCreate(fault) ==
    /\ Ready
    /\ pending["feedback_submit"] # NoCall
    /\ nextUuid < MaxUuid
    /\ LET c == pending["feedback_submit"]
           r == create_feedback(c.id, c.content, fault)
       IN  /\ feedback' = r.feedback
           /\ nextUuid' = IF r.res.ok THEN nextUuid + 1 ELSE nextUuid
           /\ feedbackLog' = IF r.res.ok THEN Append(feedbackLog, r.res.val)
                             ELSE feedbackLog
           /\ last' = Step("feedback_submit", 2,
                           [id |-> c.id, content |-> c.content],
                           r.res, feedback_submit_response(r.res))
    /\ pending' = [pending EXCEPT !["feedback_submit"] = NoCall]
    /\ UNCHANGED <<prompts, clock, promptLog>>

(* --------------------------- specifications ---------------------------- *)

\* The repository alone, under a clock that moves: create, list, get and
\* delete, with every form.
Next ==
    \/ Return
    \/ Tick
    \/ \E form \in PromptForms, fault \in BOOLEAN : CreatePrompt(form, fault)
    \/ \E fault \in BOOLEAN : GetAllPrompts(fault)
    \/ \E id \in RequestIds, fault \in BOOLEAN : GetPromptById(id, fault)
    \/ \E id \in RequestIds, c \in OneContent, fault \in BOOLEAN :
          CreateFeedback(id, c, fault)
    \/ \E id \in RequestIds, fault \in BOOLEAN :
          GetFeedbackForPrompt(id, fault)
    \/ \E id \in RequestIds, fault \in BOOLEAN :
          DeletePromptFeedback(id, fault)
    \/ \E fault \in BOOLEAN : DeletePromptRow(fault)

Spec == Init /\ [][Next]_vars

\* Requests that run beside each other and beside a delete_prompt: the
\* feedback handlers and the two statements of delete_prompt interleave.
NextRequests ==
    \/ Return
    \/ \E form \in OnePromptForm, fault \in BOOLEAN :
          CreatePrompt(form, fault)
    \/ \E id \in RequestIds, c \in OneContent, fault \in BOOLEAN :
          CreateFeedback(id, c, fault)
    \/ \E id \in RequestIds, fault \in BOOLEAN : GetPromptById(id, fault)
    \/ \E id \in RequestIds, fault \in BOOLEAN :
          DeletePromptFeedback(id, fault)
    \/ \E fault \in BOOLEAN : DeletePromptRow(fault)
    \/ \E id \in RequestIds, fault \in BOOLEAN : FeedbackForm(id, fault)
    \/ \E id \in RequestIds, c \in OneContent, fault \in BOOLEAN :
          FeedbackSubmitVerify(id, c, fault)
    \/ \E fault \in BOOLEAN : FeedbackSubmitCreate(fault)

SpecRequests == Init /\ [][NextRequests]_vars

\* The router: every route, with the forms and hosts of the tests.
NextRouter ==
    \/ Return
    \/ Tick
    \/ Index
    \/ \E fault \in BOOLEAN : AdminList(fault)
    \/ AdminNewForm
    \/ \E form \in PromptForms, fault \in BOOLEAN :
          AdminNewSubmit(form, fault)
    \/ \E id \in RequestIds, h \in RequestHosts, fault \in BOOLEAN :
          AdminDetailPrompt(id, h, fault)
    \/ \E fault \in BOOLEAN : AdminDetailFeedback(fault)
    \/ \E id \in RequestIds, fault \in BOOLEAN : FeedbackForm(id, fault)
    \/ \E id \in RequestIds, c \in OneContent, fault \in BOOLEAN :
          FeedbackSubmitVerify(id, c, fault)
    \/ \E fault \in BOOLEAN : FeedbackSubmitCreate(fault)

SpecRouter == Init /\ [][NextRouter]_vars

\* The detail route under every host: prompts are created through the form
\* and looked at under the hosts of AllHosts.
NextUrl ==
    \/ Return
    \/ \E form \in OnePromptForm, fault \in BOOLEAN :
          AdminNewSubmit(form, fault)
    \/ \E id \in RequestIds, h \in AllHosts, fault \in BOOLEAN :
          AdminDetailPrompt(id, h, fault)
    \/ \E fault \in BOOLEAN : AdminDetailFeedback(fault)

SpecUrl == Init /\ [][NextUrl]_vars

\* Everything that touches the store: the repository functions called
\* directly and every route, one form, one content and one host each.
NextAll ==
    \/ Return
    \/ \E form \in OnePromptForm, fault \in BOOLEAN :
          CreatePrompt(form, fault)
    \/ \E fault \in BOOLEAN : GetAllPrompts(fault)
    \/ \E id \in RequestIds, fault \in BOOLEAN : GetPromptById(id, fault)
    \/ \E id \in RequestIds, c \in OneContent, fault \in BOOLEAN :
          CreateFeedback(id, c, fault)
    \/ \E id \in RequestIds, fault \in BOOLEAN :
          GetFeedbackForPrompt(id, fault)
    \/ \E id \in RequestIds, fault \in BOOLEAN :
          DeletePromptFeedback(id, fault)
    \/ \E fault \in BOOLEAN : DeletePromptRow(fault)
    \/ Index
    \/ \E fault \in BOOLEAN : AdminList(fault)
    \/ AdminNewForm
    \/ \E form \in OnePromptForm, fault \in BOOLEAN :
          AdminNewSubmit(form, fault)
    \/ \E id \in RequestIds, fault \in BOOLEAN :
          AdminDetailPrompt(id, Localhost \o Port3000, fault)
    \/ \E fault \in BOOLEAN : AdminDetailFeedback(fault)
    \/ \E id \in RequestIds, fault \in BOOLEAN : FeedbackForm(id, fault)
    \/ \E id \in RequestIds, c \in OneContent, fault \in BOOLEAN :
          FeedbackSubmitVerify(id, c, fault)
    \/ \E fault \in BOOLEAN : FeedbackSubmitCreate(fault)

SpecAll == Init /\ [][NextAll]_vars

(* ------------------------------ claims --------------------------------- *)

\* The rows of a listing.
Rows(s) == {s[i] : i \in 1..Len(s)}

PromptExists(id) == \E r \in prompts : r.id = id

FeedbackOf(id) == {f \in feedback : f.prompt_id = id}

\* delete_prompt has just returned Ok(()): its second statement succeeded.
DeleteReturnedOk ==
    last.op = "delete_prompt" /\ last.stmt = 2 /\ last.res.ok

\* C1. Cascade: when delete_prompt(id) has returned successfully, a
\* get_feedback_for_prompt(id) returns the empty list and a
\* get_prompt_by_id(id) returns None, whatever feedback was created against
\* id before and whatever requests ran beside the deletion.
C1_Cascade ==
    DeleteReturnedOk =>
        /\ get_prompt_by_id(last.args.id, FALSE) = Ok(None)
        /\ get_feedback_for_prompt(last.args.id, FALSE) = {Ok(<<>>)}

\* A prompt that had feedback has been deleted successfully.
C1_Witness ==
    /\ DeleteReturnedOk
    /\ \E i \in 1..Len(promptLog) : promptLog[i].id = last.args.id
    /\ \E j \in 1..Len(feedbackLog) : feedbackLog[j].prompt_id = last.args.id

\* C2. Referenced entity must exist: every feedback row that a step inserts
\* references a prompt that is in the store when the row is inserted, also
\* when the prompt was deleted between the handler's check and its insert.
C2_ReferencedPromptExists ==
    [][\A f \in feedback' \ feedback : PromptExists(f.prompt_id)]_vars

\* feedback_submit passed its check, the prompt was deleted meanwhile, and
\* the insert was refused; feedback had been inserted before.
C2_Witness ==
    /\ last.op = "feedback_submit"
    /\ last.stmt = 2
    /\ last.res.err = "constraint"
    /\ ~PromptExists(last.args.id)
    /\ feedbackLog # <<>>

\* No feedback row references a prompt that is not in the store.
NoDanglingFeedback == \A f \in feedback : PromptExists(f.prompt_id)

\* The first statement of delete_prompt(id) removes exactly the feedback rows
\* of id and leaves the prompt rows alone.
DeleteFirstStatement ==
    (last'.op = "delete_prompt" /\ last'.stmt = 1 /\ last'.res.ok) =>
        /\ feedback' = feedback \ FeedbackOf(last'.args.id)
        /\ prompts' = prompts

\* A delete_prompt that fails leaves both tables as they are: after the
\* first statement, without the feedback rows and with the prompt row.
DeleteFailure ==
    (last'.op = "delete_prompt" /\ ~last'.res.ok) =>
        /\ feedback' = feedback
        /\ prompts' = prompts

\* The prompt row goes in the second statement, and only when no feedback
\* row references it.
DeleteSecondStatement ==
    (last'.op = "delete_prompt" /\ prompts' # prompts) =>
        /\ last'.stmt = 2
        /\ prompts' = {r \in prompts : r.id # last'.args.id}
        /\ feedback' = feedback
        /\ FeedbackOf(last'.args.id) = {}

\* C3. delete_prompt(id) removes the feedback rows of id in a first step and
\* the prompt row in a second, later step: after the first step, and after a
\* failure of the second, the feedback rows are gone and the prompt row is
\* there; and in no state is a prompt row gone while a feedback row still
\* references it.
C3_DeleteOrder ==
    [][/\ DeleteFirstStatement
       /\ DeleteFailure
       /\ DeleteSecondStatement
       /\ NoDanglingFeedback']_vars

\* delete_prompt is between its statements: the prompt row is there, and the
\* feedback that was created against it is gone.
C3_Witness ==
    /\ pending["delete_prompt"] # NoCall
    /\ PromptExists(pending["delete_prompt"].id)
    /\ FeedbackOf(pending["delete_prompt"].id) = {}
    /\ \E j \in 1..Len(feedbackLog) :
          feedbackLog[j].prompt_id = pending["delete_prompt"].id

\* get_prompt_by_id of an id that is not in the store: Ok(None), or the
\* error of a storage fault; absence itself is no error.
AbsentIsNoError ==
    (last.op = "get_prompt_by_id" /\ ~PromptExists(last.args.id)) =>
        \/ last.res = Ok(None)
        \/ last.res = Err("io")

\* A feedback submission against an id that does not resolve answers
\* "Prompt not found", is over (create_feedback is not called) and changes
\* no feedback row.
SubmitNotFound ==
    (/\ last'.op = "feedback_submit"
     /\ last'.stmt = 1
     /\ ~PromptExists(last'.args.id)) =>
        /\ last'.resp = NotFoundResponse
        /\ pending' = pending
        /\ feedback' = feedback
        /\ feedbackLog' = feedbackLog
        /\ nextUuid' = nextUuid

\* C8. Not found: get_prompt_by_id of an id that is not in the store returns
\* Ok(None), a value and not an error; a feedback submission against an id
\* that does not resolve to a prompt answers with the not-found view, never
\* calls create_feedback and leaves the feedback rows unchanged.
C8_NotFound == [][AbsentIsNoError' /\ SubmitNotFound]_vars

\* A submission against an unknown id was answered "Prompt not found" while
\* feedback rows exist.
C8_Witness ==
    /\ last.op = "feedback_submit"
    /\ last.stmt = 1
    /\ last.res = Ok(None)
    /\ last.resp = NotFoundResponse
    /\ feedback # {}

\* The position of a returned entity in the order of creation.
CreatedAs(log, row) == CHOOSE i \in 1..Len(log) : log[i] = row

\* A listing holds the later-created row before the earlier-created row.
LaterCreatedFirst(log, s) ==
    \A i, j \in 1..Len(s) :
        i < j => CreatedAs(log, s[i]) > CreatedAs(log, s[j])

\* C4. Newest-first: in the result of get_all_prompts and of
\* get_feedback_for_prompt, of any two entities the one that was created
\* later comes before the one that was created earlier; "First" then
\* "Second" list as "Second", "First".
C4_NewestFirst ==
    /\ (last.op = "get_all_prompts" /\ last.res.ok) =>
          LaterCreatedFirst(promptLog, last.res.val)
    /\ (last.op = "get_feedback_for_prompt" /\ last.res.ok) =>
          LaterCreatedFirst(feedbackLog, last.res.val)

\* C5. Isolation: get_feedback_for_prompt(id) returns every feedback row
\* whose prompt_id is id, each once, and no row of another prompt.
C5_Isolation ==
    (last.op = "get_feedback_for_prompt" /\ last.res.ok) =>
        /\ Rows(last.res.val) = FeedbackOf(last.args.id)
        /\ Len(last.res.val) = Cardinality(FeedbackOf(last.args.id))

\* The feedback of a prompt was listed while another prompt had feedback.
C5_Witness ==
    /\ last.op = "get_feedback_for_prompt"
    /\ last.res.ok
    /\ PromptExists(last.args.id)
    /\ \E f \in feedback : f.prompt_id # last.args.id

\* What create_prompt returns carries the title and description it was
\* given, and a get_prompt_by_id of the returned id returns the same entity.
CreateThenGet ==
    (last.op = "create_prompt" /\ last.res.ok) =>
        /\ last.res.val.title = last.args.title
        /\ last.res.val.description = last.args.description
        /\ get_prompt_by_id(last.res.val.id, FALSE) = Ok(Some(last.res.val))

\* A get_prompt_by_id that finds the row of id returns it, and what it
\* returns is what the create_prompt that returned id has returned.
GetReturnsCreated ==
    (last.op = "get_prompt_by_id" /\ last.res.ok) =>
        /\ PromptExists(last.args.id) => last.res.val # None
        /\ last.res.val # None =>
              /\ last.res.val[1].id = last.args.id
              /\ \E i \in 1..Len(promptLog) : promptLog[i] = last.res.val[1]

\* A prompt row is never changed, and it leaves the table only in the second
\* statement of a delete_prompt of its id.
OnlyDeleteRemoves ==
    \/ prompts \subseteq prompts'
    \/ /\ last'.op = "delete_prompt"
       /\ last'.stmt = 2
       /\ prompts \ prompts' = {r \in prompts : r.id = last'.args.id}

\* C6. Round trip: create_prompt(t, d) returns an entity with title t and
\* description d, and as long as no delete_prompt of its id removes the row,
\* a get_prompt_by_id of its id that succeeds returns that entity, equal in
\* id, title, description and created_at.
C6_RoundTrip ==
    [][CreateThenGet' /\ GetReturnsCreated' /\ OnlyDeleteRemoves]_vars

\* A get_prompt_by_id returned the prompt with the empty description after
\* another row had been inserted.
C6_Witness ==
    /\ last.op = "get_prompt_by_id"
    /\ last.res.ok
    /\ last.res.val # None
    /\ last.res.val[1].description = ""
    /\ nextUuid >= 2

\* No two rows of a table share an id.
IdsUniqueIn(table) == \A r1, r2 \in table : r1.id = r2.id => r1 = r2

\* No two entities that the create calls returned share an id.
IdsUniqueAcross(log) ==
    \A i, j \in 1..Len(log) : i # j => log[i].id # log[j].id

IdsAndTimesNonEmpty(log) ==
    \A i \in 1..Len(log) : log[i].id # <<>> /\ log[i].created_at # <<>>

\* Original statement of C7: the ids and the created_at values that
\* create_prompt returns are non-empty and unique across calls, and no two
\* stored prompts and no two feedback rows share an id.
C7_IdAndCreatedAtUnique ==
    /\ IdsAndTimesNonEmpty(promptLog)
    /\ IdsUniqueAcross(promptLog)
    /\ \A i, j \in 1..Len(promptLog) :
          i # j => promptLog[i].created_at # promptLog[j].created_at
    /\ IdsUniqueIn(prompts)
    /\ IdsUniqueIn(feedback)

\* C7. Every id and every created_at that create_prompt or create_feedback
\* returns is non-empty; no two create_prompt calls return the same id, no
\* two stored prompts share an id and no two feedback rows share an id. The
\* created_at of two calls may be the same.
C7_IdUnique ==
    /\ IdsAndTimesNonEmpty(promptLog)
    /\ IdsAndTimesNonEmpty(feedbackLog)
    /\ IdsUniqueAcross(promptLog)
    /\ IdsUniqueAcross(feedbackLog)
    /\ IdsUniqueIn(prompts)
    /\ IdsUniqueIn(feedback)

\* Two prompts with distinct ids and the same created_at are stored, and a
\* prompt has been deleted before.
C7_Witness ==
    /\ \E r1, r2 \in prompts : r1.id # r2.id /\ r1.created_at = r2.created_at
    /\ Len(promptLog) > Cardinality(prompts)

\* x occurs in h as a run of consecutive characters.
HasSubstring(h, x) ==
    \E i \in 1..Len(h) : \E j \in i..Len(h) : SubSeq(h, i, j) = x

\* The detail route has answered with the detail view.
DetailRendered == last.op = "admin_detail" /\ last.stmt = 2

\* C9. Feedback URL: for every host h and every existing prompt id p the
\* detail route computes protocol://h/feedback/p, where the protocol is
\* http exactly when "localhost" or "127.0.0.1" occurs somewhere in h, and
\* https otherwise; localhost:3000 gives http://localhost:3000/feedback/p
\* and example.com gives https://example.com/feedback/p.
C9_FeedbackUrl ==
    DetailRendered =>
        LET h == last.args.host
            p == last.args.id
            url == last.resp.data.feedback_url
        IN  /\ url = (IF HasSubstring(h, <<"l", "o", "c", "a", "l", "h", "o", "s", "t">>)
                         \/ HasSubstring(h, <<"1", "2", "7", ".", "0", ".", "0", ".", "1">>)
                      THEN <<"h", "t", "t", "p">> ELSE <<"h", "t", "t", "p", "s">>)
                     \o <<":", "/", "/">> \o h \o <<"/", "f", "e", "e", "d", "b", "a", "c", "k", "/">> \o p
            /\ h = <<"l", "o", "c", "a", "l", "h", "o", "s", "t", ":", "3", "0", "0", "0">> =>
                  url = <<"h", "t", "t", "p", ":", "/", "/", "l", "o", "c", "a", "l", "h", "o", "s", "t", ":", "3", "0", "0", "0", "/", "f", "e", "e", "d", "b", "a", "c", "k", "/">> \o p
            /\ h = <<"e", "x", "a", "m", "p", "l", "e", ".", "c", "o", "m">> =>
                  url = <<"h", "t", "t", "p", "s", ":", "/", "/", "e", "x", "a", "m", "p", "l", "e", ".", "c", "o", "m", "/", "f", "e", "e", "d", "b", "a", "c", "k", "/">> \o p

\* The detail view was computed for a host that has 127.0.0.1 inside it,
\* behind a prefix, and the link is an http link.
C9_Witness ==
    /\ DetailRendered
    /\ last.args.host = <<"a", ".", "1", "2", "7", ".", "0", ".", "0", ".", "1", ":", "3", "0", "0", "0">>
    /\ SubSeq(last.resp.data.feedback_url, 1, 7) = <<"h", "t", "t", "p", ":", "/", "/">>

\* C10. New-submit: the request calls create_prompt once. On success exactly
\* one new prompt, with the submitted title and description, is in the
\* store and the response is a redirect to /admin/prompt/ followed by the
\* id of that prompt; on a storage failure the store is as before, nothing
\* is tried again, and the response is a redirect to /admin and no error.
C10_NewSubmit ==
    [][last'.op = "admin_new_submit" =>
        IF last'.res.ok
        THEN /\ \E row \in prompts' \ prompts :
                   /\ prompts' = prompts \cup {row}
                   /\ row.title = last'.args.title
                   /\ row.description = last'.args.description
                   /\ last'.resp.status = 303
                   /\ last'.resp.location =
                         <<"/", "a", "d", "m", "i", "n", "/", "p", "r", "o", "m", "p", "t", "/">> \o row.id
             /\ nextUuid' = nextUuid + 1
             /\ Len(promptLog') = Len(promptLog) + 1
        ELSE /\ prompts' = prompts
             /\ nextUuid' = nextUuid
             /\ promptLog' = promptLog
             /\ last'.resp.status = 303
             /\ last'.resp.location = <<"/", "a", "d", "m", "i", "n">>
      ]_vars

\* A submission failed in the store and was answered with the redirect to
\* the listing, after another submission had created a prompt.
C10_Witness ==
    /\ last.op = "admin_new_submit"
    /\ ~last.res.ok
    /\ last.resp = Redirect(AdminUri)
    /\ prompts # {}

\* The list route has answered a get_all_prompts that failed.
ListFailed == last.op = "admin_list" /\ ~last.res.ok

\* The listing view as it is rendered for an empty store.
EmptyListing == Html("admin_list.html", [prompts |-> <<>>])

\* Original statement of C11: when get_all_prompts fails, the list route
\* answers with the listing view of an empty store, with status 200.
C11_FailureRendersEmptyListing ==
    ListFailed => last.resp = EmptyListing

\* C11. When get_all_prompts fails, the list route answers with status 200
\* and the text "Error loading prompts", which is not the listing view; the
\* listing view with no prompts is the answer for an empty store only.
C11_FailureRendersError ==
    /\ ListFailed =>
          /\ last.resp.status = 200
          /\ last.resp.view = "Error loading prompts"
          /\ last.resp # EmptyListing
    /\ (last.op = "admin_list" /\ last.res.ok) =>
          /\ last.resp.status = 200
          /\ last.resp.view = "admin_list.html"
          /\ last.resp.data.prompts = last.res.val
          /\ (last.resp = EmptyListing) = (prompts = {})

\* The list route has answered a failed query while prompts are stored.
C11_Witness == ListFailed /\ prompts # {}

\* The first statement of the detail route: without a prompt (absent, or
\* the query failed) the answer is "Prompt not found" with status 200 and
\* the request is over; with a prompt there is no answer yet and the request
\* goes on with that prompt.
DetailFirstStatement ==
    (last'.op = "admin_detail" /\ last'.stmt = 1) =>
        IF /\ last'.res.ok
           /\ \E r \in prompts : r.id = last'.args.id
        THEN /\ last'.resp = NoResponse
             /\ pending'["admin_detail"] # NoCall
             /\ pending'["admin_detail"].prompt \in prompts
             /\ pending'["admin_detail"].prompt.id = last'.args.id
             /\ pending'["admin_detail"].host = last'.args.host
        ELSE /\ last'.resp.status = 200
             /\ last'.resp.view = "Prompt not found"
             /\ last'.resp.data = <<>>
             /\ pending' = pending

\* The second statement of the detail route: the detail view, with the
\* prompt of the first statement, and with the feedback that was read or, if
\* the query failed, with no feedback.
DetailSecondStatement ==
    (last'.op = "admin_detail" /\ last'.stmt = 2) =>
        /\ pending["admin_detail"] # NoCall
        /\ last'.resp.status = 200
        /\ last'.resp.view = "admin_detail.html"
        /\ last'.resp.data.prompt = pending["admin_detail"].prompt
        /\ last'.resp.data.feedback_list =
              IF last'.res.ok THEN last'.res.val ELSE <<>>
        /\ last'.res.ok =>
              Rows(last'.res.val) = FeedbackOf(last'.args.id)

\* C12. Detail route: when get_prompt_by_id returns None or fails, the
\* answer is the not-found view with status 200, and neither the feedback
\* query nor the link computation follows; when it returns a prompt, the
\* detail view is rendered with that prompt, and a failure of
\* get_feedback_for_prompt shows as an empty feedback list.
C12_DetailOutcomes == [][DetailFirstStatement /\ DetailSecondStatement]_vars

\* The detail view was rendered with an empty feedback list because the
\* feedback query failed, while the prompt has feedback.
C12_Witness ==
    /\ DetailRendered
    /\ ~last.res.ok
    /\ last.resp.view = "admin_detail.html"
    /\ last.resp.data.feedback_list = <<>>
    /\ FeedbackOf(last.args.id) # {}

\* A feedback row that is stored stays stored as it is, unless the step is
\* the first statement of a delete_prompt of the row's prompt_id.
FeedbackStays ==
    \A f \in feedback :
        \/ f \in feedback'
        \/ /\ last'.op = "delete_prompt"
           /\ last'.stmt = 1
           /\ f.prompt_id = last'.args.id

\* A feedback row enters the store alone, in a create_feedback (called
\* directly or by the submit route) against a prompt that is stored, with
\* the submitted prompt id and content and an id no row had before.
FeedbackEnters ==
    feedback' # feedback /\ feedback \subseteq feedback' =>
        /\ \/ last'.op = "create_feedback" /\ last'.stmt = 1
           \/ last'.op = "feedback_submit" /\ last'.stmt = 2
        /\ last'.res.ok
        /\ feedback' = feedback \cup {last'.res.val}
        /\ last'.res.val.prompt_id = last'.args.id
        /\ last'.res.val.content = last'.args.content
        /\ PromptExists(last'.args.id)
        /\ \A j \in 1..Len(feedbackLog) :
              feedbackLog[j].id # last'.res.val.id

\* A step does not both remove and insert feedback rows.
FeedbackOneWay ==
    feedback \subseteq feedback' \/ feedback' \subseteq feedback

\* C13. Feedback lifecycle: over every sequence of repository calls and
\* route requests, a stored feedback row keeps its id, prompt_id, content
\* and created_at; a feedback row is created only by a submission against a
\* prompt that is stored; and a feedback row leaves the store only in a
\* delete_prompt of its own prompt_id.
C13_FeedbackLifecycle ==
    [][FeedbackStays /\ FeedbackEnters /\ FeedbackOneWay]_vars

\* The feedback that was created for one prompt was removed by the
\* delete_prompt of that prompt, while another prompt is stored.
C13_Witness ==
    /\ last.op = "delete_prompt"
    /\ last.stmt = 1
    /\ last.res.ok
    /\ \E j \in 1..Len(feedbackLog) :
          /\ feedbackLog[j].prompt_id = last.args.id
          /\ feedbackLog[j] \notin feedback
    /\ \E r \in prompts : r.id # last.args.id

====
